---- MODULE Spec2Model ----
(***************************************************************************)
(* Model of src/main.py: the Brand & BOI alignment pipeline.               *)
(*                                                                         *)
(* A Python str is a sequence of one-character strings.  A cell of a       *)
(* DataFrame is a str or NaN.  A DataFrame is a record                     *)
(*   [cols |-> set of column names, rows |-> sequence of rows]             *)
(* where a row is a function from cols to cells.  Columns have object     *)
(* dtype, as pandas 1.x and 2.x give a column of strings and blanks; a     *)
(* literal the code writes in full is a one-element sequence holding it.   *)
(* A raised exception is the record [raised |-> name].                     *)
(***************************************************************************)
EXTENDS Integers, Sequences, FiniteSets, TLC

VARIABLES pc,                     \* the step the run is at
          df, result,             \* one function's argument and what it returned
          eu_df, ogrds_df, boi_suggest_df,
          val, fixed, refixed,    \* fix_spacing's argument and results
          file_list, eu_file, ogrds_file

fnVars == <<df, result>>
pipeVars == <<eu_df, ogrds_df, boi_suggest_df>>
fixVars == <<val, fixed, refixed>>
zipVars == <<file_list, eu_file, ogrds_file>>

vars == <<pc, fnVars, pipeVars, fixVars, zipVars>>

(* ------------------------------ bounds ------------------------------- *)
MaxValLen == 4
MaxFiles == 3
MaxTokLen == 4
MaxSplitRows == 2
MaxBrandLen == 3
MaxGbeLen == 2
MaxOgrdsRows == 3
MaxEuRows == 2
MaxPipeRows == 2

(* ------------------------------ values ------------------------------- *)
NaN == <<"NaN">>
None == <<"None">>
Unused == <<"unused">>

isna(v) == v = NaN \/ v = None

Raised(e) == [raised |-> e]
IsRaised(x) == DOMAIN x = {"raised"}

StringsUpTo(A, n) == UNION {[1..k -> A] : k \in 0..n}

Whitespace == {" ", "\t", "\n"}

(* ------------------------- Python str methods ------------------------ *)
\* index of the first character of s that is in C, 0 when there is none
FirstIn(s, C) ==
  IF \E i \in 1..Len(s) : s[i] \in C
  THEN CHOOSE i \in 1..Len(s) : s[i] \in C /\ \A j \in 1..(i-1) : s[j] \notin C
  ELSE 0

RECURSIVE str_split(_, _)
str_split(s, sep) ==
  LET i == FirstIn(s, {sep}) IN
  IF i = 0 THEN <<s>>
  ELSE <<SubSeq(s, 1, i-1)>> \o str_split(SubSeq(s, i+1, Len(s)), sep)

RECURSIVE str_join(_, _)
str_join(sep, parts) ==
  IF Len(parts) = 0 THEN <<>>
  ELSE IF Len(parts) = 1 THEN parts[1]
  ELSE parts[1] \o <<sep>> \o str_join(sep, Tail(parts))

RECURSIVE rstrip(_, _)
rstrip(s, C) ==
  IF Len(s) > 0 /\ s[Len(s)] \in C THEN rstrip(SubSeq(s, 1, Len(s)-1), C) ELSE s

RECURSIVE lstrip(_, _)
lstrip(s, C) ==
  IF Len(s) > 0 /\ s[1] \in C THEN lstrip(Tail(s), C) ELSE s

str_strip(s) == rstrip(lstrip(s, Whitespace), Whitespace)

startswith(s, prefix) ==
  Len(prefix) <= Len(s) /\ SubSeq(s, 1, Len(prefix)) = prefix

str_contains(s, sub) ==
  \E i \in 1..(Len(s) - Len(sub) + 1) : SubSeq(s, i, i + Len(sub) - 1) = sub

LowerOf(c) ==
  CASE c = "E" -> "e" [] c = "U" -> "u" [] c = "O" -> "o" [] c = "G" -> "g"
    [] c = "R" -> "r" [] c = "D" -> "d" [] c = "S" -> "s" [] OTHER -> c

str_lower(s) == [i \in 1..Len(s) |-> LowerOf(s[i])]

str_endswith(s, suffix) ==
  Len(suffix) <= Len(s) /\ SubSeq(s, Len(s) - Len(suffix) + 1, Len(s)) = suffix

(* ------------------------------ fix_spacing -------------------------- *)
\* re.sub(r'([^\s])(\()', r'\1 (', part): leftmost non-overlapping matches,
\* the character before '(' is consumed by the match.
RECURSIVE re_sub_paren(_)
re_sub_paren(part) ==
  IF Len(part) < 2 THEN part
  ELSE IF part[1] \notin Whitespace /\ part[2] = "("
       THEN <<part[1], " ", "(">> \o re_sub_paren(SubSeq(part, 3, Len(part)))
       ELSE <<part[1]>> \o re_sub_paren(Tail(part))

fix_spacing(v) ==
  IF isna(v) THEN v
  ELSE LET parts == str_split(v, ";")
           new_parts == [i \in 1..Len(parts) |-> re_sub_paren(parts[i])]
       IN str_join(";", new_parts)

(* ----------------------- extract_zip_and_identify -------------------- *)
\* next((f for f in file_list if sub in f.lower()), None)
FirstMatching(files, sub) ==
  IF \E i \in 1..Len(files) : str_contains(str_lower(files[i]), sub)
  THEN LET i == CHOOSE i \in 1..Len(files) :
                  /\ str_contains(str_lower(files[i]), sub)
                  /\ \A j \in 1..(i-1) : ~str_contains(str_lower(files[j]), sub)
       IN files[i]
  ELSE None

(* ------------------------- read_uploaded_file ------------------------ *)
\* the table read from a file is identified by the file's name; None when the
\* extension is not supported
read_uploaded_file(filename) ==
  IF str_endswith(filename, <<".", "c", "s", "v">>) THEN <<"table_of", filename>>
  ELSE IF \/ str_endswith(filename, <<".", "x", "l", "s">>)
          \/ str_endswith(filename, <<".", "x", "l", "s", "x">>)
       THEN <<"table_of", filename>>
  ELSE None

\* lines 21-26: the names chosen for the EU and the OGRDS table, (None, None)
\* when either is missing
IdentifyFiles(files) ==
  LET e == FirstMatching(files, <<"e", "u">>)
      o == FirstMatching(files, <<"o", "g", "r", "d", "s">>)
  IN IF e = None \/ o = None THEN <<None, None>> ELSE <<e, o>>

\* the pair (df_eu, df_ogrds) returned
extract_zip_and_identify(files) ==
  LET names == IdentifyFiles(files) IN
  IF names = <<None, None>> THEN <<None, None>>
  ELSE <<read_uploaded_file(names[1]), read_uploaded_file(names[2])>>

(* ----------------------------- DataFrames ---------------------------- *)
NRows(d) == Len(d.rows)

Column(d, c) == [i \in 1..NRows(d) |-> d.rows[i][c]]

\* df[c] = vals
WithColumn(d, c, vals) ==
  [cols |-> d.cols \cup {c},
   rows |-> [i \in 1..NRows(d) |->
               [k \in d.cols \cup {c} |-> IF k = c THEN vals[i] ELSE d.rows[i][k]]]]

\* row.get(c)
row_get(row, c) == IF c \in DOMAIN row THEN row[c] ELSE None

\* Series + Series on object columns: a null operand gives NaN
StrAdd(a, b) == IF isna(a) \/ isna(b) THEN NaN ELSE a \o b

SetMax(S) == CHOOSE m \in S : \A x \in S : x <= m

(* ------------------------- split_brand_columns ----------------------- *)
\* number of columns of df['BRAND_VALIDATED'].str.split(';', expand=True):
\* the longest token list, a null row counting as the one-element list [NaN]
SplitWidth(col) ==
  SetMax({IF isna(col[i]) THEN 1 ELSE Len(str_split(col[i], ";")) : i \in 1..Len(col)})

\* cell of column k of the expanded split: a null row is NaN in every column,
\* a short row is padded with None
SplitCell(v, k) ==
  IF isna(v) THEN NaN
  ELSE LET toks == str_split(v, ";") IN IF k <= Len(toks) THEN toks[k] ELSE None

split_brand_columns(d) ==
  IF "BRAND_VALIDATED" \in d.cols THEN
    LET col == Column(d, "BRAND_VALIDATED") IN
    \* brand_split.columns = [three names] raises on any other width
    IF SplitWidth(col) # 3 THEN Raised("ValueError")
    ELSE WithColumn(
           WithColumn(
             WithColumn(d, "BOI_VALIDATED", [i \in 1..Len(col) |-> SplitCell(col[i], 1)]),
             "BRAND1_VALIDATED", [i \in 1..Len(col) |-> SplitCell(col[i], 2)]),
           "GBE_VALIDATED", [i \in 1..Len(col) |-> SplitCell(col[i], 3)])
  ELSE IF "BRAND_1" \in d.cols THEN
    WithColumn(d, "BRAND1_VALIDATED", Column(d, "BRAND_1"))
  ELSE Raised("KeyError")

(* ---------------------- clean_and_merge_supergroup ------------------- *)
\* .str.extract(r'^([^\[\(]+)'): the leading run of one or more characters that
\* are neither '[' nor '('; NaN when the value is null or the run is empty
str_extract_lead(v) ==
  IF isna(v) THEN NaN
  ELSE LET i == FirstIn(v, {"[", "("})
           run == IF i = 0 THEN v ELSE SubSeq(v, 1, i-1)
       IN IF Len(run) = 0 THEN NaN ELSE run

\* .astype(str): a null becomes the three-character string "nan"
astype_str(v) == IF isna(v) THEN <<"n", "a", "n">> ELSE v

\* .str.replace(r' +$', '', regex=True)
strip_trailing_spaces(v) == IF isna(v) THEN v ELSE rstrip(v, {" "})

brand_1_clean(v) == strip_trailing_spaces(astype_str(str_extract_lead(v)))

\* faulty variant: SUPER_GROUP_DSCR is preferred when both columns exist
SuperGroupColumn_PrefersDscr(d) ==
  IF "SUPER_GROUP_DSCR" \in d.cols THEN "SUPER_GROUP_DSCR"
  ELSE IF "SUPER_GROUP" \in d.cols THEN "SUPER_GROUP"
  ELSE ""

\* the super-group column used for the Join Key, "" when the table has none
SuperGroupColumn(d) ==
  IF "SUPER_GROUP" \in d.cols THEN "SUPER_GROUP"
  ELSE IF "SUPER_GROUP_DSCR" \in d.cols THEN "SUPER_GROUP_DSCR"
  ELSE ""

clean_and_merge_supergroup(d) ==
  IF "BRAND1_VALIDATED" \notin d.cols THEN Raised("KeyError")
  ELSE
    LET d1 == WithColumn(d, "BRAND_1_CLEAN",
                [i \in 1..NRows(d) |-> brand_1_clean(d.rows[i]["BRAND1_VALIDATED"])])
        sg == SuperGroupColumn(d1)
    IN IF sg = "" THEN d1
       ELSE WithColumn(d1, "SG_B1",
              [i \in 1..NRows(d1) |->
                 StrAdd(StrAdd(d1.rows[i][sg], <<" ">>), d1.rows[i]["BRAND_1_CLEAN"])])

(* ------------------------- ordering of str --------------------------- *)
CodePoint(c) ==
  CASE c = " " -> 32 [] c = "(" -> 40 [] c = ";" -> 59
    [] c = "A" -> 65 [] c = "B" -> 66 [] c = "E" -> 69 [] c = "F" -> 70
    [] c = "[" -> 91 [] c = "a" -> 97 [] c = "b" -> 98 [] c = "n" -> 110
    [] OTHER -> 0

\* Python's a < b on str
RECURSIVE StrLess(_, _)
StrLess(a, b) ==
  IF Len(b) = 0 THEN FALSE
  ELSE IF Len(a) = 0 THEN TRUE
  ELSE IF a[1] = b[1] THEN StrLess(Tail(a), Tail(b))
  ELSE CodePoint(a[1]) < CodePoint(b[1])

(* ------------------------- generate_boi_suggest ---------------------- *)
\* faulty variant: groupby(..., dropna=False), a null is a group key like any other
GroupKeys_KeepNull(d) ==
  {<<d.rows[i]["SG_B1"], d.rows[i]["BRAND_OWNER_INTERNATIONAL"]>> : i \in 1..NRows(d)}

\* the group keys of groupby(['SG_B1', 'BRAND_OWNER_INTERNATIONAL']): dropna
\* is True by default, a row with a null in either key is in no group
GroupKeys(d) ==
  {<<d.rows[i]["SG_B1"], d.rows[i]["BRAND_OWNER_INTERNATIONAL"]>> : i \in
     {j \in 1..NRows(d) : /\ ~isna(d.rows[j]["SG_B1"])
                          /\ ~isna(d.rows[j]["BRAND_OWNER_INTERNATIONAL"])}}

\* .size()
GroupSize(d, g) ==
  Cardinality({i \in 1..NRows(d) : /\ d.rows[i]["SG_B1"] = g[1]
                                   /\ d.rows[i]["BRAND_OWNER_INTERNATIONAL"] = g[2]})

GroupLess(g, h) == StrLess(g[1], h[1]) \/ (g[1] = h[1] /\ StrLess(g[2], h[2]))

\* groupby sorts the group keys ascending (sort=True)
RECURSIVE SortedGroups(_)
SortedGroups(G) ==
  IF G = {} THEN <<>>
  ELSE LET m == CHOOSE g \in G : \A h \in G \ {g} : GroupLess(g, h)
       IN <<m>> \o SortedGroups(G \ {m})

\* .groupby(...).size().reset_index(name='count')
groupby_size(d) ==
  LET gs == SortedGroups(GroupKeys(d)) IN
  [i \in 1..Len(gs) |->
     [SG_B1 |-> gs[i][1], BRAND_OWNER_INTERNATIONAL |-> gs[i][2],
      count |-> GroupSize(d, gs[i])]]

\* the order of sort_values(['SG_B1', 'count'], ascending=[True, False])
SortBefore(x, y) ==
  StrLess(x.SG_B1, y.SG_B1) \/ (x.SG_B1 = y.SG_B1 /\ x.count > y.count)

\* faulty variant: an unstable sort, a row goes before the rows it compares equal to
RECURSIVE InsertStable_BeforeEqual(_, _)
InsertStable_BeforeEqual(s, x) ==
  IF Len(s) = 0 THEN <<x>>
  ELSE IF ~SortBefore(s[1], x) THEN <<x>> \o s
  ELSE <<s[1]>> \o InsertStable_BeforeEqual(Tail(s), x)

RECURSIVE InsertStable(_, _)
InsertStable(s, x) ==
  IF Len(s) = 0 THEN <<x>>
  ELSE IF SortBefore(x, s[1]) THEN <<x>> \o s
  ELSE <<s[1]>> \o InsertStable(Tail(s), x)

RECURSIVE SortInto(_, _)
SortInto(acc, rest) ==
  IF Len(rest) = 0 THEN acc ELSE SortInto(InsertStable(acc, rest[1]), Tail(rest))

\* a sort on several columns is a stable lexsort: rows that compare equal keep
\* their order
sort_values(rows) == SortInto(<<>>, rows)

RECURSIVE drop_duplicates(_)
\* .drop_duplicates(subset=['SG_B1']): the first row of each SG_B1 is kept
drop_duplicates(rows) ==
  IF Len(rows) = 0 THEN <<>>
  ELSE LET init == SubSeq(rows, 1, Len(rows) - 1)
           last == rows[Len(rows)]
       IN IF \E j \in 1..Len(init) : init[j].SG_B1 = last.SG_B1
          THEN drop_duplicates(init)
          ELSE drop_duplicates(init) \o <<last>>

generate_boi_suggest(d) ==
  IF ~({"SG_B1", "BRAND_OWNER_INTERNATIONAL"} \subseteq d.cols) THEN Raised("KeyError")
  ELSE LET kept == drop_duplicates(sort_values(groupby_size(d))) IN
       [cols |-> {"SG_B1", "BOI_SUGGEST"},
        rows |-> [i \in 1..Len(kept) |->
                    [SG_B1 |-> kept[i].SG_B1,
                     BOI_SUGGEST |-> kept[i].BRAND_OWNER_INTERNATIONAL]]]

(* -------------------------- merge_boi_suggest ------------------------ *)
Sentinel == <<"SG_B1 not present in OGRDS">>

\* the rows a left row yields in merge(on='SG_B1', how='left'): one per right
\* row with an equal key (a null key equals a null key), in the right table's
\* order, and one with a null BOI_SUGGEST when there is none
RECURSIVE MatchesOf(_, _)
MatchesOf(row, right) ==
  IF Len(right) = 0 THEN <<>>
  ELSE (IF right[1]["SG_B1"] = row["SG_B1"]
           \/ (isna(right[1]["SG_B1"]) /\ isna(row["SG_B1"]))
        THEN <<[k \in DOMAIN row \cup {"BOI_SUGGEST"} |->
                  IF k = "BOI_SUGGEST" THEN right[1]["BOI_SUGGEST"] ELSE row[k]]>>
        ELSE <<>>) \o MatchesOf(row, Tail(right))

LeftRows(row, right) ==
  LET ms == MatchesOf(row, right) IN
  IF Len(ms) = 0
  THEN <<[k \in DOMAIN row \cup {"BOI_SUGGEST"} |->
            IF k = "BOI_SUGGEST" THEN NaN ELSE row[k]]>>
  ELSE ms

RECURSIVE merge_left(_, _)
merge_left(left, right) ==
  IF Len(left) = 0 THEN <<>>
  ELSE LeftRows(left[1], right) \o merge_left(Tail(left), right)

\* faulty variant: the fillna is left out
fillna_Skipped(v) == v

\* .fillna('SG_B1 not present in OGRDS')
fillna(v) == IF isna(v) THEN Sentinel ELSE v

merge_boi_suggest(e, s) ==
  \* without SG_B1 the merge raises; with a BOI_SUGGEST column already there the
  \* merge suffixes both and eu_df['BOI_SUGGEST'] raises
  IF "SG_B1" \notin e.cols \/ "BOI_SUGGEST" \in e.cols THEN Raised("KeyError")
  ELSE LET merged == merge_left(e.rows, s.rows) IN
       [cols |-> e.cols \cup {"BOI_SUGGEST"},
        rows |-> [i \in 1..Len(merged) |->
                    [k \in DOMAIN merged[i] |->
                       IF k = "BOI_SUGGEST" THEN fillna(merged[i][k]) ELSE merged[i][k]]]]

(* --------------------------- validation stage ------------------------ *)
apply_spacing_fix(d) ==
  IF "BRAND_VALIDATED" \notin d.cols THEN Raised("KeyError")
  ELSE WithColumn(d, "BRAND_VALIDATED_FIXED",
         [i \in 1..NRows(d) |-> fix_spacing(d.rows[i]["BRAND_VALIDATED"])])

MissingData == <<"Missing Data">>
CorrectGBE == <<"Correct GBE">>
IncorrectGBE == <<"Incorrect GBE">>

\* faulty variant: the brand prefix is not stripped
check_gbe_match_NoStrip(row) ==
  LET brand_fixed == row_get(row, "BRAND1_VALIDATED")
      gbe == row_get(row, "GBE_VALIDATED")
  IN IF isna(brand_fixed) \/ isna(gbe) THEN MissingData
     ELSE LET brand_clean == str_split(brand_fixed, "(")[1]
          IN IF startswith(gbe, brand_clean) THEN CorrectGBE ELSE IncorrectGBE

check_gbe_match(row) ==
  LET brand_fixed == row_get(row, "BRAND1_VALIDATED")
      gbe == row_get(row, "GBE_VALIDATED")
  IN IF isna(brand_fixed) \/ isna(gbe) THEN MissingData
     ELSE LET brand_clean == str_strip(str_split(brand_fixed, "(")[1])
          IN IF startswith(gbe, brand_clean) THEN CorrectGBE ELSE IncorrectGBE

apply_gbe_validation(d) ==
  WithColumn(d, "GBE_STATUS", [i \in 1..NRows(d) |-> check_gbe_match(d.rows[i])])

(***************************************************************************)
(* SpecFix: fix_spacing applied once and then again to its own result.     *)
(***************************************************************************)
FixAlphabet == {"a", "(", " ", ";"}

FixInit ==
  /\ pc = "fix"
  /\ val \in StringsUpTo(FixAlphabet, MaxValLen) \cup {NaN}
  /\ fixed = Unused /\ refixed = Unused
  /\ df = Unused /\ result = Unused
  /\ eu_df = Unused /\ ogrds_df = Unused /\ boi_suggest_df = Unused
  /\ file_list = Unused /\ eu_file = Unused /\ ogrds_file = Unused

FixOnce ==
  /\ pc = "fix"
  /\ fixed' = fix_spacing(val)
  /\ pc' = "fixed"
  /\ UNCHANGED <<val, refixed, fnVars, pipeVars, zipVars>>

FixTwice ==
  /\ pc = "fixed"
  /\ refixed' = fix_spacing(fixed)
  /\ pc' = "refixed"
  /\ UNCHANGED <<val, fixed, fnVars, pipeVars, zipVars>>

FixNext == FixOnce \/ FixTwice

SpecFix == FixInit /\ [][FixNext]_vars

\* C7: fix_spacing is idempotent, and after one application every '(' that has
\* a preceding character within its token is preceded by whitespace.
C7_SpacingFixIdempotent ==
  pc = "refixed" /\ ~isna(val) =>
    /\ refixed = fixed
    /\ \A i \in 2..Len(fixed) :
         fixed[i] = "(" /\ fixed[i-1] # ";" => fixed[i-1] \in Whitespace

(***************************************************************************)
(* SpecZip: extract_zip_and_identify on an archive's name list, then the   *)
(* caller's test of the two tables (lines 124-145).                        *)
(***************************************************************************)
FileNames ==
  { <<"e", "u", ".", "c", "s", "v">>,
    <<"E", "U", ".", "x", "l", "s", "x">>,
    <<"o", "g", "r", "d", "s", ".", "c", "s", "v">>,
    <<"o", "g", "r", "d", "s", "_", "e", "u", ".", "x", "l", "s">>,
    <<"x", ".", "c", "s", "v">>,
    <<"e", "u", ".", "t", "x", "t">> }

\* z.namelist(): distinct names, in the archive's order
NameLists ==
  {l \in UNION {[1..k -> FileNames] : k \in 0..MaxFiles} :
     \A i, j \in 1..Len(l) : i # j => l[i] # l[j]}

ZipInit ==
  /\ pc = "uploaded"
  /\ file_list \in NameLists
  /\ eu_file = Unused /\ ogrds_file = Unused
  /\ eu_df = Unused /\ ogrds_df = Unused
  /\ df = Unused /\ result = Unused /\ boi_suggest_df = Unused
  /\ val = Unused /\ fixed = Unused /\ refixed = Unused

ExtractZip ==
  /\ pc = "uploaded"
  /\ eu_file' = IdentifyFiles(file_list)[1]
  /\ ogrds_file' = IdentifyFiles(file_list)[2]
  /\ eu_df' = extract_zip_and_identify(file_list)[1]
  /\ ogrds_df' = extract_zip_and_identify(file_list)[2]
  /\ pc' = "extracted"
  /\ UNCHANGED <<file_list, boi_suggest_df, fnVars, fixVars>>

\* if df_eu is not None and df_ogrds is not None
StartProcessing ==
  /\ pc = "extracted"
  /\ eu_df # None /\ ogrds_df # None
  /\ pc' = "processing"
  /\ UNCHANGED <<zipVars, pipeVars, fnVars, fixVars>>

ShowInfo ==
  /\ pc = "extracted"
  /\ ~(eu_df # None /\ ogrds_df # None)
  /\ pc' = "info"
  /\ UNCHANGED <<zipVars, pipeVars, fnVars, fixVars>>

ZipNext == ExtractZip \/ StartProcessing \/ ShowInfo

SpecZip == ZipInit /\ [][ZipNext]_vars

Reverse(l) == [i \in 1..Len(l) |-> l[Len(l) + 1 - i]]

HasEu(f) == str_contains(str_lower(f), <<"e", "u">>)
HasOgrds(f) == str_contains(str_lower(f), <<"o", "g", "r", "d", "s">>)

\* C9: for an archive of exactly two files, one whose name contains "eu" and
\* one whose name contains "ogrds", the files selected as the EU table and as
\* the OGRDS table are the same for both orders of the two files.
C9_IdentificationOrderInvariant ==
  ( /\ pc = "extracted"
    /\ Len(file_list) = 2
    /\ \E i, j \in 1..2 : i # j /\ HasEu(file_list[i]) /\ HasOgrds(file_list[j]) )
  => /\ IdentifyFiles(Reverse(file_list)) = <<eu_file, ogrds_file>>
     /\ extract_zip_and_identify(Reverse(file_list)) = <<eu_df, ogrds_df>>

(***************************************************************************)
(* The per-function specifications: df is the argument, result what the    *)
(* function returned (or the exception it raised).                         *)
(***************************************************************************)
FnInitOthers ==
  /\ result = Unused
  /\ eu_df = Unused /\ ogrds_df = Unused /\ boi_suggest_df = Unused
  /\ val = Unused /\ fixed = Unused /\ refixed = Unused
  /\ file_list = Unused /\ eu_file = Unused /\ ogrds_file = Unused

Tables(Rows, n) == UNION {[1..k -> Rows] : k \in 1..n}

(***************************************************************************)
(* SpecSplit: split_brand_columns.                                         *)
(***************************************************************************)
Composites == StringsUpTo({"a", ";"}, MaxTokLen) \cup {NaN}

SplitColumnSets ==
  { {"SUPER_GROUP", "BRAND_VALIDATED"}, {"SUPER_GROUP", "BRAND_1"},
    {"SUPER_GROUP", "BRAND_VALIDATED", "BRAND_1"}, {"SUPER_GROUP"} }

SplitRows(cols) ==
  { [c \in cols |-> IF c = "SUPER_GROUP" THEN <<"E">>
                    ELSE IF c = "BRAND_1" /\ "BRAND_VALIDATED" \in cols THEN <<"a">>
                    ELSE v] : v \in Composites }

SplitInit ==
  /\ pc = "split"
  /\ \E cols \in SplitColumnSets :
       \E rows \in Tables(SplitRows(cols), MaxSplitRows) :
         df = [cols |-> cols, rows |-> rows]
  /\ FnInitOthers

SplitBrandColumns ==
  /\ pc = "split"
  /\ result' = split_brand_columns(df)
  /\ pc' = IF IsRaised(split_brand_columns(df)) THEN "raised" ELSE "returned"
  /\ UNCHANGED <<df, pipeVars, fixVars, zipVars>>

SplitNext == SplitBrandColumns

SpecSplit == SplitInit /\ [][SplitNext]_vars

SplitNames == <<"BOI_VALIDATED", "BRAND1_VALIDATED", "GBE_VALIDATED">>

\* C4: for every table that has BRAND_VALIDATED, whatever the number of tokens
\* in its rows, split_brand_columns completes without error and adds exactly
\* the three columns, column i holding the i-th token of the row, null when the
\* row has fewer than i tokens, tokens after the third discarded.
C4_SplitAnyTokenCount ==
  pc \in {"returned", "raised"} /\ "BRAND_VALIDATED" \in df.cols =>
    /\ pc = "returned"
    /\ result.cols = df.cols \cup {SplitNames[k] : k \in 1..3}
    /\ NRows(result) = NRows(df)
    /\ \A i \in 1..NRows(df) : \A k \in 1..3 :
         LET v == df.rows[i]["BRAND_VALIDATED"]
             cell == result.rows[i][SplitNames[k]]
         IN IF isna(v) \/ Len(str_split(v, ";")) < k THEN isna(cell)
            ELSE cell = str_split(v, ";")[k]

(***************************************************************************)
(* SpecClean: clean_and_merge_supergroup on a table that has been through  *)
(* split_brand_columns.                                                    *)
(***************************************************************************)
Brackets == {"[", "("}

Brands == StringsUpTo({"a", " ", "(", "["}, MaxBrandLen) \cup {NaN}

CleanColumnSets ==
  { {"BRAND1_VALIDATED"}, {"BRAND1_VALIDATED", "SUPER_GROUP"},
    {"BRAND1_VALIDATED", "SUPER_GROUP_DSCR"},
    {"BRAND1_VALIDATED", "SUPER_GROUP", "SUPER_GROUP_DSCR"} }

CleanRows(cols, B) ==
  { [c \in cols |-> IF c = "BRAND1_VALIDATED" THEN b
                    ELSE IF c = "SUPER_GROUP" THEN g ELSE h] :
      b \in B, g \in {NaN, <<"E">>}, h \in {NaN, <<"F">>} }

\* a first row over every brand value, and possibly a second one
CleanTables(cols) ==
  {<<r>> : r \in CleanRows(cols, Brands)} \cup
  {<<r, q>> : r \in CleanRows(cols, Brands), q \in CleanRows(cols, {NaN, <<"a", " ", "(">>})}

CleanInit ==
  /\ pc = "clean"
  /\ \E cols \in CleanColumnSets : \E rows \in CleanTables(cols) :
       df = [cols |-> cols, rows |-> rows]
  /\ FnInitOthers

CleanAndMergeSupergroup ==
  /\ pc = "clean"
  /\ result' = clean_and_merge_supergroup(df)
  /\ pc' = "returned"
  /\ UNCHANGED <<df, pipeVars, fixVars, zipVars>>

CleanNext == CleanAndMergeSupergroup

SpecClean == CleanInit /\ [][CleanNext]_vars

\* c is b's leading run before the first bracket, trailing spaces stripped
IsCleanedLead(b, c) ==
  \E k \in 0..Len(b) : \E m \in 0..k :
    /\ \A x \in 1..k : b[x] \notin Brackets
    /\ k < Len(b) => b[k+1] \in Brackets
    /\ \A x \in (m+1)..k : b[x] = " "
    /\ m > 0 => b[m] # " "
    /\ c = SubSeq(b, 1, m)

\* C5: for every row, BRAND_1_CLEAN is the leading run of the brand-name value
\* before the first '[' or '(' with trailing spaces stripped, and is null
\* whenever the brand-name value is null.
C5_CleanedBrandName ==
  pc = "returned" =>
    \A i \in 1..NRows(df) :
      LET b == df.rows[i]["BRAND1_VALIDATED"]
          c == result.rows[i]["BRAND_1_CLEAN"]
      IN IF isna(b) THEN isna(c) ELSE IsCleanedLead(b, c)

\* C6: for every row of a table that has a super-group column (SUPER_GROUP when
\* both exist), SG_B1 is the super-group value, one space, the cleaned brand
\* name; and SG_B1 is null whenever the super-group value is null.
C6_JoinKey ==
  pc = "returned" /\ df.cols \cap {"SUPER_GROUP", "SUPER_GROUP_DSCR"} # {} =>
    /\ "SG_B1" \in result.cols
    /\ \A i \in 1..NRows(df) :
         LET g == IF "SUPER_GROUP" \in df.cols THEN df.rows[i]["SUPER_GROUP"]
                  ELSE df.rows[i]["SUPER_GROUP_DSCR"]
             key == result.rows[i]["SG_B1"]
         IN IF isna(g) THEN isna(key)
            ELSE key = g \o <<" ">> \o result.rows[i]["BRAND_1_CLEAN"]

\* both super-group columns present and different, one row keyed, one not
C6_Witness ==
  /\ pc = "returned"
  /\ {"SUPER_GROUP", "SUPER_GROUP_DSCR"} \subseteq df.cols
  /\ NRows(df) = 2
  /\ df.rows[1]["SUPER_GROUP"] = <<"E">> /\ df.rows[1]["SUPER_GROUP_DSCR"] = <<"F">>
  /\ result.rows[1]["SG_B1"] = <<"E", " ", "a">>
  /\ isna(df.rows[2]["SUPER_GROUP"]) /\ df.rows[2]["SUPER_GROUP_DSCR"] = <<"F">>
  /\ result.rows[2]["SG_B1"] = NaN

(***************************************************************************)
(* SpecGbe: apply_gbe_validation, check_gbe_match on every row.            *)
(***************************************************************************)
GbeBrands == StringsUpTo({"a", "b", " ", "("}, MaxBrandLen) \cup {NaN}
GbeEntities == StringsUpTo({"a", "b", " "}, MaxGbeLen) \cup {NaN}

GbeColumnSets ==
  { {"SUPER_GROUP", "BRAND1_VALIDATED", "GBE_VALIDATED"},
    {"SUPER_GROUP", "BRAND1_VALIDATED"}, {"SUPER_GROUP", "GBE_VALIDATED"},
    {"SUPER_GROUP"} }

GbeRows(cols, B, G, S) ==
  { [c \in cols |-> IF c = "BRAND1_VALIDATED" THEN b
                    ELSE IF c = "GBE_VALIDATED" THEN g ELSE sg] :
      b \in B, g \in G, sg \in S }

\* one row over every pair of values; possibly a second row, which is either
\* the first in another super group or one of a few fixed rows
GbeTables(cols) ==
  LET first == GbeRows(cols, GbeBrands, GbeEntities, {<<"E">>}) IN
  {<<r>> : r \in first} \cup
  {<<r, [r EXCEPT !["SUPER_GROUP"] = <<"F">>]>> : r \in first} \cup
  {<<r, q>> : r \in first,
              q \in GbeRows(cols, {NaN, <<"a", " ", "(">>}, {<<"a", "b">>}, {<<"F">>})}

GbeInit ==
  /\ pc = "gbe"
  /\ \E cols \in GbeColumnSets : \E rows \in GbeTables(cols) :
       df = [cols |-> cols, rows |-> rows]
  /\ FnInitOthers

ApplyGbeValidation ==
  /\ pc = "gbe"
  /\ result' = apply_gbe_validation(df)
  /\ pc' = "returned"
  /\ UNCHANGED <<df, pipeVars, fixVars, zipVars>>

GbeNext == ApplyGbeValidation

SpecGbe == GbeInit /\ [][GbeNext]_vars

\* t is p without its leading and trailing whitespace
IsTrimmed(p, t) ==
  \E i \in 1..(Len(p) + 1) : \E j \in (i-1)..Len(p) :
    /\ \A x \in 1..(i-1) : p[x] \in Whitespace
    /\ \A x \in (j+1)..Len(p) : p[x] \in Whitespace
    /\ i <= j => p[i] \notin Whitespace /\ p[j] \notin Whitespace
    /\ t = SubSeq(p, i, j)

\* p is b up to, not including, its first '('
IsBeforeParen(b, p) ==
  \E k \in 0..Len(b) :
    /\ \A x \in 1..k : b[x] # "("
    /\ k < Len(b) => b[k+1] = "("
    /\ p = SubSeq(b, 1, k)

Absent == <<"absent">>

\* what the claim says the status of a row with these two cells is (Absent for
\* a column the table does not have)
GbeVerdictOk(brand, gbe, status) ==
  IF brand = Absent \/ gbe = Absent THEN status = MissingData
  ELSE IF isna(brand) \/ isna(gbe) THEN status = MissingData
  ELSE \E p \in {SubSeq(brand, 1, k) : k \in 0..Len(brand)} :
       \E t \in {SubSeq(p, i, j) : i \in 1..(Len(p)+1), j \in 0..Len(p)} :
         /\ IsBeforeParen(brand, p)
         /\ IsTrimmed(p, t)
         /\ status = IF Len(t) <= Len(gbe) /\ SubSeq(gbe, 1, Len(t)) = t
                     THEN CorrectGBE ELSE IncorrectGBE

CellOrAbsent(row, c) == IF c \in DOMAIN row THEN row[c] ELSE Absent

\* C8: per row, "Missing Data" if the brand-name or the group-entity value is
\* null or its column absent; otherwise "Correct GBE" if the group-entity
\* string starts with the trimmed part of the brand-name before its first '(';
\* otherwise "Incorrect GBE". Rows with the same two values get the same status.
C8_GbeStatus ==
  pc = "returned" =>
    /\ \A i \in 1..NRows(df) :
         GbeVerdictOk(CellOrAbsent(df.rows[i], "BRAND1_VALIDATED"),
                      CellOrAbsent(df.rows[i], "GBE_VALIDATED"),
                      result.rows[i]["GBE_STATUS"])
    /\ \A i, j \in 1..NRows(df) :
         /\ CellOrAbsent(df.rows[i], "BRAND1_VALIDATED")
              = CellOrAbsent(df.rows[j], "BRAND1_VALIDATED")
         /\ CellOrAbsent(df.rows[i], "GBE_VALIDATED")
              = CellOrAbsent(df.rows[j], "GBE_VALIDATED")
         => result.rows[i]["GBE_STATUS"] = result.rows[j]["GBE_STATUS"]

\* two rows of different super groups with the same brand " a(" and entity
\* "ab": both Correct GBE
C8_Witness ==
  /\ pc = "returned"
  /\ NRows(df) = 2
  /\ {"BRAND1_VALIDATED", "GBE_VALIDATED"} \subseteq df.cols
  /\ df.rows[1]["BRAND1_VALIDATED"] = <<"a", " ", "(">>
  /\ df.rows[2]["BRAND1_VALIDATED"] = <<"a", " ", "(">>
  /\ df.rows[1]["GBE_VALIDATED"] = <<"a", "b">>
  /\ df.rows[2]["GBE_VALIDATED"] = <<"a", "b">>
  /\ df.rows[1]["SUPER_GROUP"] # df.rows[2]["SUPER_GROUP"]
  /\ result.rows[1]["GBE_STATUS"] = CorrectGBE
  /\ result.rows[2]["GBE_STATUS"] = CorrectGBE

(***************************************************************************)
(* SpecSuggest: generate_boi_suggest on a reference table that has been    *)
(* through the Key Builder, then merge_boi_suggest of its result into a    *)
(* primary table.                                                          *)
(***************************************************************************)
JoinKeys == {<<"E", " ", "a">>, <<"E", " ", "b">>, NaN}
Owners == {<<"A", "B">>, <<"B">>, <<"a">>, NaN}

OgrdsKeyedRows ==
  {[SG_B1 |-> k, BRAND_OWNER_INTERNATIONAL |-> o] : k \in JoinKeys, o \in Owners}

EuKeyedRows == {[SG_B1 |-> k] : k \in JoinKeys}

EuKeyedTables ==
  {[cols |-> {"SG_B1"}, rows |-> rows] : rows \in Tables(EuKeyedRows, MaxEuRows)}

SuggestInit ==
  /\ pc = "suggest"
  /\ \E rows \in Tables(OgrdsKeyedRows, MaxOgrdsRows) :
       ogrds_df = [cols |-> {"SG_B1", "BRAND_OWNER_INTERNATIONAL"}, rows |-> rows]
  /\ eu_df = Unused /\ boi_suggest_df = Unused
  /\ df = Unused /\ result = Unused
  /\ val = Unused /\ fixed = Unused /\ refixed = Unused
  /\ file_list = Unused /\ eu_file = Unused /\ ogrds_file = Unused

GenerateBoiSuggest ==
  /\ pc = "suggest"
  /\ boi_suggest_df' = generate_boi_suggest(ogrds_df)
  /\ pc' = "suggested"
  /\ UNCHANGED <<eu_df, ogrds_df, fnVars, fixVars, zipVars>>

MergeBoiSuggest ==
  /\ pc = "suggested"
  /\ \E e \in EuKeyedTables :
       /\ eu_df' = e
       /\ result' = merge_boi_suggest(e, boi_suggest_df)
  /\ pc' = "merged"
  /\ UNCHANGED <<ogrds_df, boi_suggest_df, df, fixVars, zipVars>>

SuggestNext == GenerateBoiSuggest \/ MergeBoiSuggest

SpecSuggest == SuggestInit /\ [][SuggestNext]_vars

\* rows of the reference table with Join Key k and owner o
Occurrences(k, o) ==
  Cardinality({i \in 1..NRows(ogrds_df) :
                 /\ ogrds_df.rows[i]["SG_B1"] = k
                 /\ ogrds_df.rows[i]["BRAND_OWNER_INTERNATIONAL"] = o})

OwnerValues ==
  {ogrds_df.rows[i]["BRAND_OWNER_INTERNATIONAL"] : i \in 1..NRows(ogrds_df)} \ {NaN, None}

\* C3: the suggested owner of a Join Key is an owner value with the highest
\* occurrence count among the rows of that key, and among the owners that share
\* that count it is the one that sorts first.
C3_MajorityOwner ==
  pc \in {"suggested", "merged"} =>
    \A j \in 1..NRows(boi_suggest_df) :
      LET k == boi_suggest_df.rows[j]["SG_B1"]
          w == boi_suggest_df.rows[j]["BOI_SUGGEST"]
      IN /\ w \in OwnerValues
         /\ Occurrences(k, w) >= 1
         /\ \A o \in OwnerValues :
              /\ Occurrences(k, o) <= Occurrences(k, w)
              /\ Occurrences(k, o) = Occurrences(k, w) /\ o # w => StrLess(w, o)

\* a key with "B" before "AB" in the table, once each: the suggestion is "AB"
C3_Witness ==
  /\ pc = "suggested"
  /\ NRows(ogrds_df) >= 2
  /\ ogrds_df.rows[1] = [SG_B1 |-> <<"E", " ", "a">>, BRAND_OWNER_INTERNATIONAL |-> <<"B">>]
  /\ ogrds_df.rows[2] = [SG_B1 |-> <<"E", " ", "a">>, BRAND_OWNER_INTERNATIONAL |-> <<"A", "B">>]
  /\ Occurrences(<<"E", " ", "a">>, <<"B">>) = 1
  /\ \E j \in 1..NRows(boi_suggest_df) :
       boi_suggest_df.rows[j] = [SG_B1 |-> <<"E", " ", "a">>, BOI_SUGGEST |-> <<"A", "B">>]

SuggestedKeys == {boi_suggest_df.rows[j]["SG_B1"] : j \in 1..NRows(boi_suggest_df)}

OneRowPerKey ==
  \A i, j \in 1..NRows(boi_suggest_df) :
    boi_suggest_df.rows[i]["SG_B1"] = boi_suggest_df.rows[j]["SG_B1"] => i = j

\* C10 as claimed: the suggestion table has exactly one row for each distinct
\* Join Key value of the reference table, a null Join Key being a group of its
\* own with an entry keyed by null, and no other rows.
C10_OneRowPerKeyNullIncluded ==
  pc = "suggested" =>
    /\ OneRowPerKey
    /\ SuggestedKeys = {ogrds_df.rows[i]["SG_B1"] : i \in 1..NRows(ogrds_df)}

\* C10 as amended: the suggestion table has exactly one row for each distinct
\* non-null Join Key that occurs in a row with a non-null owner, and no other
\* rows; rows with a null Join Key or a null owner give no entry.
C10_OneRowPerCountedKey ==
  pc = "suggested" =>
    /\ OneRowPerKey
    /\ SuggestedKeys =
         {ogrds_df.rows[i]["SG_B1"] : i \in
            {x \in 1..NRows(ogrds_df) :
               /\ ~isna(ogrds_df.rows[x]["SG_B1"])
               /\ ~isna(ogrds_df.rows[x]["BRAND_OWNER_INTERNATIONAL"])}}

\* a null-keyed row, a key whose only owner is null, and a key with an owner:
\* one entry
C10_Witness ==
  /\ pc = "suggested"
  /\ NRows(ogrds_df) = 3
  /\ ogrds_df.rows[1] = [SG_B1 |-> NaN, BRAND_OWNER_INTERNATIONAL |-> <<"B">>]
  /\ ogrds_df.rows[2] = [SG_B1 |-> <<"E", " ", "b">>, BRAND_OWNER_INTERNATIONAL |-> NaN]
  /\ ogrds_df.rows[3] = [SG_B1 |-> <<"E", " ", "a">>, BRAND_OWNER_INTERNATIONAL |-> <<"A", "B">>]
  /\ NRows(boi_suggest_df) = 1
  /\ boi_suggest_df.rows[1] = [SG_B1 |-> <<"E", " ", "a">>, BOI_SUGGEST |-> <<"A", "B">>]

\* C2: merge_boi_suggest returns one row per primary row, in the primary
\* table's order; a row's BOI_SUGGEST is the suggested owner of the entry with
\* the same Join Key if there is one and the sentinel otherwise; every row with
\* a null Join Key receives the sentinel.
C2_MergeKeepsRows ==
  pc = "merged" =>
    /\ ~IsRaised(result)
    /\ NRows(result) = NRows(eu_df)
    /\ \A i \in 1..NRows(eu_df) :
         LET k == eu_df.rows[i]["SG_B1"]
             got == result.rows[i]["BOI_SUGGEST"]
             entries == {j \in 1..NRows(boi_suggest_df) :
                           ~isna(k) /\ boi_suggest_df.rows[j]["SG_B1"] = k}
         IN /\ \A c \in eu_df.cols : result.rows[i][c] = eu_df.rows[i][c]
            /\ IF entries # {}
               THEN \E j \in entries : got = boi_suggest_df.rows[j]["BOI_SUGGEST"]
               ELSE got = Sentinel
            /\ isna(k) => got = Sentinel

\* the reference table has a null-keyed row with an owner; the primary table
\* has a null-keyed row, which gets the sentinel, and then a matched row
C2_Witness ==
  /\ pc = "merged"
  /\ \E i \in 1..NRows(ogrds_df) :
       /\ isna(ogrds_df.rows[i]["SG_B1"])
       /\ ~isna(ogrds_df.rows[i]["BRAND_OWNER_INTERNATIONAL"])
  /\ NRows(eu_df) = 2
  /\ isna(eu_df.rows[1]["SG_B1"])
  /\ result.rows[1]["BOI_SUGGEST"] = Sentinel
  /\ result.rows[2]["SG_B1"] = <<"E", " ", "a">>
  /\ result.rows[2]["BOI_SUGGEST"] = <<"B">>

(***************************************************************************)
(* SpecPipeline: process_pipeline, one step per stage.  A stage that       *)
(* raises ends the run: its table is left as it was and the exception is   *)
(* in result.                                                              *)
(***************************************************************************)
EuColumnSets ==
  { {sg, b} : sg \in {"SUPER_GROUP", "SUPER_GROUP_DSCR"},
              b \in {"BRAND_1", "BRAND_VALIDATED"} }

EuBrandValues(c) ==
  IF c = "BRAND_1" THEN {NaN, <<"a">>, <<"a", "(", "b", ")">>}
  ELSE {NaN, <<"A", ";", "a", ";", "a">>, <<"B", ";", "a", "(", "b", ")", ";", "b">>}

EuRows(cols) ==
  { [c \in cols |-> IF c \in {"SUPER_GROUP", "SUPER_GROUP_DSCR"} THEN g ELSE b] :
      g \in {NaN, <<"E">>},
      b \in UNION {EuBrandValues(c) : c \in cols \cap {"BRAND_1", "BRAND_VALIDATED"}} }

OgrdsRows ==
  { [SUPER_GROUP |-> g, BRAND_VALIDATED |-> b, BRAND_OWNER_INTERNATIONAL |-> o] :
      g \in {NaN, <<"E">>},
      b \in {<<"A", ";", "a", ";", "a">>, <<"B", ";", "a", " ", "(", "b", ")", ";", "b">>},
      o \in {<<"A">>, <<"B">>} }

PipelineInit ==
  /\ pc = "split_eu"
  /\ \E cols \in EuColumnSets : \E rows \in Tables(EuRows(cols), MaxPipeRows) :
       eu_df = [cols |-> cols, rows |-> rows]
  /\ \E rows \in Tables(OgrdsRows, MaxPipeRows) :
       ogrds_df = [cols |-> {"SUPER_GROUP", "BRAND_VALIDATED", "BRAND_OWNER_INTERNATIONAL"},
                   rows |-> rows]
  /\ boi_suggest_df = Unused
  /\ df = Unused /\ result = Unused
  /\ val = Unused /\ fixed = Unused /\ refixed = Unused
  /\ file_list = Unused /\ eu_file = Unused /\ ogrds_file = Unused

\* eu_df = split_brand_columns(eu_df)
SplitEu ==
  /\ pc = "split_eu"
  /\ LET r == split_brand_columns(eu_df) IN
       IF IsRaised(r) THEN result' = r /\ pc' = "raised" /\ UNCHANGED eu_df
       ELSE eu_df' = r /\ pc' = "split_ogrds" /\ UNCHANGED result
  /\ UNCHANGED <<ogrds_df, boi_suggest_df, df, fixVars, zipVars>>

\* ogrds_df = split_brand_columns(ogrds_df)
SplitOgrds ==
  /\ pc = "split_ogrds"
  /\ LET r == split_brand_columns(ogrds_df) IN
       IF IsRaised(r) THEN result' = r /\ pc' = "raised" /\ UNCHANGED ogrds_df
       ELSE ogrds_df' = r /\ pc' = "clean_eu" /\ UNCHANGED result
  /\ UNCHANGED <<eu_df, boi_suggest_df, df, fixVars, zipVars>>

\* eu_df = clean_and_merge_supergroup(eu_df)
CleanEu ==
  /\ pc = "clean_eu"
  /\ LET r == clean_and_merge_supergroup(eu_df) IN
       IF IsRaised(r) THEN result' = r /\ pc' = "raised" /\ UNCHANGED eu_df
       ELSE eu_df' = r /\ pc' = "clean_ogrds" /\ UNCHANGED result
  /\ UNCHANGED <<ogrds_df, boi_suggest_df, df, fixVars, zipVars>>

\* ogrds_df = clean_and_merge_supergroup(ogrds_df)
CleanOgrds ==
  /\ pc = "clean_ogrds"
  /\ LET r == clean_and_merge_supergroup(ogrds_df) IN
       IF IsRaised(r) THEN result' = r /\ pc' = "raised" /\ UNCHANGED ogrds_df
       ELSE ogrds_df' = r /\ pc' = "suggest" /\ UNCHANGED result
  /\ UNCHANGED <<eu_df, boi_suggest_df, df, fixVars, zipVars>>

\* boi_suggest_df = generate_boi_suggest(ogrds_df)
Suggest ==
  /\ pc = "suggest"
  /\ LET r == generate_boi_suggest(ogrds_df) IN
       IF IsRaised(r) THEN result' = r /\ pc' = "raised" /\ UNCHANGED boi_suggest_df
       ELSE boi_suggest_df' = r /\ pc' = "merge" /\ UNCHANGED result
  /\ UNCHANGED <<eu_df, ogrds_df, df, fixVars, zipVars>>

\* eu_df = merge_boi_suggest(eu_df, boi_suggest_df)
Merge ==
  /\ pc = "merge"
  /\ LET r == merge_boi_suggest(eu_df, boi_suggest_df) IN
       IF IsRaised(r) THEN result' = r /\ pc' = "raised" /\ UNCHANGED eu_df
       ELSE eu_df' = r /\ pc' = "spacing_fix" /\ UNCHANGED result
  /\ UNCHANGED <<ogrds_df, boi_suggest_df, df, fixVars, zipVars>>

\* eu_df = apply_spacing_fix(eu_df)
SpacingFix ==
  /\ pc = "spacing_fix"
  /\ LET r == apply_spacing_fix(eu_df) IN
       IF IsRaised(r) THEN result' = r /\ pc' = "raised" /\ UNCHANGED eu_df
       ELSE eu_df' = r /\ pc' = "gbe_validation" /\ UNCHANGED result
  /\ UNCHANGED <<ogrds_df, boi_suggest_df, df, fixVars, zipVars>>

\* eu_df = apply_gbe_validation(eu_df); return eu_df
GbeValidation ==
  /\ pc = "gbe_validation"
  /\ eu_df' = apply_gbe_validation(eu_df)
  /\ result' = apply_gbe_validation(eu_df)
  /\ pc' = "done"
  /\ UNCHANGED <<ogrds_df, boi_suggest_df, df, fixVars, zipVars>>

PipelineNext ==
  \/ SplitEu \/ SplitOgrds \/ CleanEu \/ CleanOgrds
  \/ Suggest \/ Merge \/ SpacingFix \/ GbeValidation

SpecPipeline == PipelineInit /\ [][PipelineNext]_vars

\* C1: with a primary table that has BRAND_1 and no BRAND_VALIDATED, and a
\* super-group column, and a reference table with BRAND_VALIDATED and a
\* super-group column, process_pipeline runs its five stages to completion
\* without raising, and every row of what it returns has a BOI_SUGGEST value
\* and GBE_STATUS = "Missing Data".
C1_FallbackEndToEnd ==
  ( /\ pc \in {"done", "raised"}
    /\ "BRAND_1" \in eu_df.cols /\ "BRAND_VALIDATED" \notin eu_df.cols
    /\ eu_df.cols \cap {"SUPER_GROUP", "SUPER_GROUP_DSCR"} # {}
    /\ {"BRAND_VALIDATED", "SUPER_GROUP"} \subseteq ogrds_df.cols )
  => /\ pc = "done"
     /\ \A i \in 1..NRows(result) :
          /\ "BOI_SUGGEST" \in DOMAIN result.rows[i]
          /\ ~isna(result.rows[i]["BOI_SUGGEST"])
          /\ result.rows[i]["GBE_STATUS"] = MissingData

====
